---- MODULE Spec2Model ----
(***************************************************************************)
(* Model of chuk-mcp-time: the three tools of server.py (get_time_utc,     *)
(* get_time_for_timezone, compare_system_clock) over the NTP fan-out and   *)
(* the consensus engine.                                                   *)
(*                                                                         *)
(* Representation of numbers.  Every Python float that holds a time or a   *)
(* duration (seconds or milliseconds) is held exactly, as an integer count *)
(* of ticks of 10 ns; "* 1000" between float seconds and float             *)
(* milliseconds changes the unit of the same quantity and leaves the tick  *)
(* count alone.  Integer milliseconds (epoch_ms) and ISO-8601 strings      *)
(* (microsecond resolution) are what int() and datetime.fromtimestamp()    *)
(* make of a float and are modelled by IntMs and IsoFormat.  All inputs    *)
(* are multiples of 40 ticks, so that halving and "* 0.1" are exact.       *)
(* An ISO string is represented by the microsecond count it prints.        *)
(***************************************************************************)
EXTENDS Integers, Sequences, FiniteSets, TLC

\* ---------------------------------------------------------------- units
TicksPerUs == 100
TicksPerMs == 1000 * TicksPerUs
Ms(n) == n * TicksPerMs

\* None of an Optional[float] / Optional[int] field, and of an Optional[str]
NoneNum == 0 - 1
NoneStr == "None"

\* ---------------------------------------------------------------- bounds
\* number of configured servers in the largest configuration
NumServers == 3

\* ------------------------------------------------ configuration (_config)
FastModeServerCount == 2
MinSources == 2
MaxOutlierDeviationMs == 500
MaxDisagreementMs == 250
\* error bound reported with the system-clock fallback
FallbackErrorMs == 10000

\* the configured server lists the model is run with: none, one, NumServers
AllServers == [i \in 1..NumServers |-> i]
ServerLists == {SubSeq(AllServers, 1, n) : n \in {0, 1, NumServers}}

\* ---------------------------------------------------------------- models.py
AccuracyModeFAST == "fast"
AccuracyModeACCURATE == "accurate"
AccuracyMode == {AccuracyModeFAST, AccuracyModeACCURATE}

MEDIAN_WITH_OUTLIER_REJECTION == "median_with_outlier_rejection"
SYSTEM_FALLBACK == "system_fallback"

\* ConsensusMethod with the fallback member under the name "fallback"
ConsensusMethodRenamed == {MEDIAN_WITH_OUTLIER_REJECTION, "fallback"}
\* the members of ConsensusMethod
ConsensusMethod == {MEDIAN_WITH_OUTLIER_REJECTION, SYSTEM_FALLBACK}

ClockStatusOK == "ok"
ClockStatusDRIFT == "drift"
ClockStatusERROR == "error"
ClockStatus == {ClockStatusOK, ClockStatusDRIFT, ClockStatusERROR}

NTPError == {"timeout", "dns_error", "network_error", "parse_error"}

\* ---------------------------------------------------------------- inputs
\* the system clock at the start of a request
T0 == Ms(2000)
\* what the system clock may do between two readings: run, stand still at the
\* clock's resolution, or be set back (time.time() is the wall clock)
ClockSteps == {0 - Ms(150), 0, Ms(100)}
\* what a server that answers may report
SuccessOutcomes ==
    { [timestamp |-> T0,            rtt_ms |-> Ms(20), stratum |-> 1],
      [timestamp |-> T0 + Ms(5) + 40, rtt_ms |-> Ms(80), stratum |-> 2],
      [timestamp |-> T0 + Ms(2000), rtt_ms |-> Ms(40), stratum |-> 3] }
\* the modes a caller may pass: the two members of AccuracyMode and a value
\* that is none of them
RequestedModes == AccuracyMode \cup {"bogus"}
\* zone names a caller may pass, and the ones the tz database resolves
ZoneNames == {"America/New_York", "Invalid/Timezone"}
KnownZones == {"America/New_York"}
Tools == {"get_time_utc", "get_time_for_timezone", "compare_system_clock"}

\* ------------------------------------------------------ float conversions
Abs(x) == IF x < 0 THEN 0 - x ELSE x
Max2(a, b) == IF a >= b THEN a ELSE b

\* int(t * 1000): Python's int() truncates toward zero
IntMs(t) == IF t >= 0 THEN t \div TicksPerMs ELSE 0 - ((0 - t) \div TicksPerMs)

\* datetime.fromtimestamp(t, tz=UTC).isoformat(): the float is rounded to the
\* nearest microsecond, ties to even
IsoFormat(t) ==
    LET q == t \div TicksPerUs
        r == t % TicksPerUs
    IN  IF 2 * r > TicksPerUs \/ (2 * r = TicksPerUs /\ q % 2 = 1)
        THEN q + 1 ELSE q

\* f"{x:.1f}" of a float of milliseconds: tenths of a millisecond, ties to even
Fmt1(t) ==
    LET u == TicksPerMs \div 10
        q == t \div u
        r == t % u
    IN  IF 2 * r > u \/ (2 * r = u /\ q % 2 = 1) THEN q + 1 ELSE q

\* x * 0.1
Tenth(x) == x \div 10

\* ------------------------------------------------------ sequences
RECURSIVE InsertSorted(_, _)
InsertSorted(x, s) ==
    IF s = <<>> THEN <<x>>
    ELSE IF x <= Head(s) THEN <<x>> \o s
         ELSE <<Head(s)>> \o InsertSorted(x, Tail(s))

RECURSIVE Sorted(_)
Sorted(s) == IF s = <<>> THEN <<>> ELSE InsertSorted(Head(s), Sorted(Tail(s)))

\* statistics.median: the middle value, or the mean of the two middle values
Median(s) ==
    LET t == Sorted(s)
        n == Len(s)
    IN  IF n % 2 = 1 THEN t[(n + 1) \div 2]
        ELSE (t[n \div 2] + t[n \div 2 + 1]) \div 2

MaxOf(s) == Sorted(s)[Len(s)]
MinOf(s) == Sorted(s)[1]

\* ------------------------------------------------------ ntp_client
\* NTPResponse of a query that was answered with a valid packet
SuccessResponse(server, o) ==
    [server |-> server, timestamp |-> o.timestamp, rtt_ms |-> o.rtt_ms,
     stratum |-> o.stratum, success |-> TRUE, error |-> NoneStr,
     error_type |-> NoneStr]

\* NTPResponse of a query that timed out, did not resolve, failed in the
\* transport or was answered with a malformed packet
FailureResponse(server, kind) ==
    [server |-> server, timestamp |-> 0, rtt_ms |-> 0, stratum |-> 0,
     success |-> FALSE, error |-> kind, error_type |-> kind]

\* the slot of a query that is still in flight
PendingResponse(server) ==
    [server |-> server, timestamp |-> 0, rtt_ms |-> 0, stratum |-> 0,
     success |-> FALSE, error |-> "pending", error_type |-> NoneStr]

\* every outcome one query can have
QueryOutcomes(server) ==
    {SuccessResponse(server, o) : o \in SuccessOutcomes}
        \cup {FailureResponse(server, k) : k \in NTPError}

\* ------------------------------------------------------ consensus engine
\* SourceSample reported for one NTPResponse
SourceSampleOf(r) ==
    IF r.success
    THEN [server |-> r.server, success |-> TRUE, timestamp |-> r.timestamp,
          rtt_ms |-> r.rtt_ms, stratum |-> r.stratum, error |-> NoneStr]
    ELSE [server |-> r.server, success |-> FALSE, timestamp |-> NoneNum,
          rtt_ms |-> NoneNum, stratum |-> NoneNum, error |-> r.error]

SourceSamplesOf(rs) == [i \in 1..Len(rs) |-> SourceSampleOf(rs[i])]

IsSuccess(r) == r.success
Timestamps(rs) == [i \in 1..Len(rs) |-> rs[i].timestamp]
Rtts(rs) == [i \in 1..Len(rs) |-> rs[i].rtt_ms]
Spread(rs) == MaxOf(Timestamps(rs)) - MinOf(Timestamps(rs))

\* outlier rejection that falls back to the first sample alone
RetainedFirstOnly(successes) ==
    LET med == Median(Timestamps(successes))
        Near(r) == Abs(r.timestamp - med) <= Ms(MaxOutlierDeviationMs)
        kept == SelectSeq(successes, Near)
    IN  IF kept = <<>> THEN <<successes[1]>> ELSE kept

\* the successes that deviate from the median of all successes by no more than
\* the outlier threshold; all of them when that would leave none
Retained(successes) ==
    LET med == Median(Timestamps(successes))
        Near(r) == Abs(r.timestamp - med) <= Ms(MaxOutlierDeviationMs)
        kept == SelectSeq(successes, Near)
    IN  IF kept = <<>> THEN successes ELSE kept

\* TimeConsensus built from a timestamp and the metadata of its tier
TimeConsensus(ts, used, rs, method, err, warns, now) ==
    [timestamp |-> ts, iso8601_time |-> IsoFormat(ts), epoch_ms |-> IntMs(ts),
     sources_used |-> used, total_sources |-> Len(rs),
     consensus_method |-> method, estimated_error_ms |-> err,
     source_samples |-> SourceSamplesOf(rs), warnings |-> warns,
     system_time |-> IsoFormat(now), system_delta_ms |-> now - ts]

\* compute_consensus(responses) with the system clock reading `now`.  `tag` is
\* the ConsensusMethod member the engine gives a result built from fewer than
\* min_sources successes.
compute_consensus(rs, now, tag) ==
    LET successes == SelectSeq(rs, IsSuccess)
        n == Len(successes)
    IN  IF n = 0
        THEN TimeConsensus(now, 0, rs, SYSTEM_FALLBACK, Ms(FallbackErrorMs),
                           << <<"all sources failed, using system clock">> >>, now)
        ELSE IF n < MinSources
        THEN TimeConsensus(successes[1].timestamp, n, rs, tag,
                           successes[1].rtt_ms,
                           << <<"reduced confidence", n, MinSources>> >>, now)
        ELSE LET kept == Retained(successes)
                 spread == Spread(kept)
             IN  TimeConsensus(Median(Timestamps(kept)), Len(kept), rs,
                               MEDIAN_WITH_OUTLIER_REJECTION,
                               Max2(Median(Rtts(kept)) \div 2, spread \div 2),
                               IF spread > Ms(MaxDisagreementMs)
                               THEN << <<"sources disagree", spread>> >>
                               ELSE <<>>,
                               now)

\* ------------------------------------------------------ server.py
LatencyWarningMs == 100
OkBelowMs == 100
DriftBelowMs == 1000

\* the server selection ignoring the accuracy mode
SelectServersAll(m, configured) == configured

\* servers queried for a mode: the fast-mode prefix of the configured list, or
\* the whole list for anything that is not AccuracyMode.FAST
SelectServers(m, configured) ==
    IF m = AccuracyModeFAST
    THEN SubSeq(configured, 1,
                IF FastModeServerCount < Len(configured)
                THEN FastModeServerCount ELSE Len(configured))
    ELSE configured

\* query_duration with the two readings swapped
QueryDurationSwapped(start, query_end) == start - query_end

\* query_duration: the clock reading taken after compute_consensus returned
\* minus the one taken at the start (line 69)
QueryDuration(start, query_end) == query_end - start

\* compensated_timestamp without the shift
CompensatedTimestampUnshifted(c, query_duration) == c.timestamp

\* compensated_timestamp (line 75)
CompensatedTimestamp(c, query_duration) == c.timestamp + query_duration

\* the warning get_time_utc adds for a slow query (line 82)
LatencyWarning(query_duration_ms) ==
    <<"Applied latency compensation to timestamp", Fmt1(query_duration_ms)>>

\* warnings of the compensated path with the threshold included
CompensatedWarningsInclusive(c, query_duration_ms) ==
    IF query_duration_ms >= Ms(LatencyWarningMs)
    THEN Append(c.warnings, LatencyWarning(query_duration_ms))
    ELSE c.warnings

\* warnings of the compensated path (lines 80-82)
CompensatedWarnings(c, query_duration_ms) ==
    IF query_duration_ms > Ms(LatencyWarningMs)
    THEN Append(c.warnings, LatencyWarning(query_duration_ms))
    ELSE c.warnings

\* adjusted_error (line 86)
AdjustedError(c, query_duration_ms) ==
    c.estimated_error_ms + Tenth(query_duration_ms)

\* system_delta_ms copied from the consensus result
CompensatedDeltaCopied(c, now, compensated_timestamp) == c.system_delta_ms

\* system_delta_ms of the compensated path (lines 90-91)
CompensatedDelta(c, now, compensated_timestamp) == now - compensated_timestamp

\* sources_used and total_sources with the two fields exchanged
SourceCountsSwapped(c) == <<c.total_sources, c.sources_used>>

\* sources_used and total_sources of the TimeResponse (lines 109-110)
SourceCounts(c) == <<c.sources_used, c.total_sources>>

\* source_samples with the successful samples moved to the front
SourceSamplesDumpSuccessFirst(c) ==
    SelectSeq(c.source_samples, LAMBDA s : s.success) \o
    SelectSeq(c.source_samples, LAMBDA s : ~s.success)

\* source_samples keeping the successful samples that count as used
SourceSamplesDumpUsedOnly(c) ==
    SubSeq(SelectSeq(c.source_samples, LAMBDA s : s.success),
           1, c.sources_used)

\* source_samples: every sample of the consensus dumped in order (line 104)
SourceSamplesDump(c) == [i \in 1..Len(c.source_samples) |-> c.source_samples[i]]

\* the TimeResponse get_time_utc returns for a consensus result (lines 68-119);
\* query_end is the clock reading taken after compute_consensus returned, now
\* the one taken after the timestamp was shifted
TimeResponse(c, compensate, start, query_end, now) ==
    LET query_duration == QueryDuration(start, query_end)
        query_duration_ms == query_duration
        compensated_timestamp == CompensatedTimestamp(c, query_duration)
    IN  [iso8601_time |->
            IF compensate THEN IsoFormat(compensated_timestamp)
            ELSE c.iso8601_time,
         epoch_ms |->
            IF compensate THEN IntMs(compensated_timestamp) ELSE c.epoch_ms,
         sources_used |-> SourceCounts(c)[1],
         total_sources |-> SourceCounts(c)[2],
         consensus_method |-> c.consensus_method,
         estimated_error_ms |->
            IF compensate THEN AdjustedError(c, query_duration_ms)
            ELSE c.estimated_error_ms,
         source_samples |-> SourceSamplesDump(c),
         warnings |->
            IF compensate THEN CompensatedWarnings(c, query_duration_ms)
            ELSE c.warnings,
         system_time |-> c.system_time,
         system_delta_ms |->
            IF compensate THEN CompensatedDelta(c, now, compensated_timestamp)
            ELSE c.system_delta_ms,
         query_duration_ms |-> query_duration_ms,
         latency_compensated |-> compensate]

\* zoneinfo: the UTC offset of a resolvable zone, in milliseconds
UtcOffsetMs(zone) == 0 - 5 * 3600 * 1000

\* str(e) of the exception ZoneInfo raises for a name it cannot resolve
ZoneError(zone) == <<"No time zone found with key", zone>>

\* the UTC reading relabelled with the offset of the zone instead of converted
LocalIsoRelabelled(epoch_ms, zone) == <<"ISO", epoch_ms, UtcOffsetMs(zone)>>

\* local_dt.isoformat(): the wall-clock reading and the offset it is printed with
LocalIso(epoch_ms, zone) ==
    <<"ISO", epoch_ms + UtcOffsetMs(zone), UtcOffsetMs(zone)>>

\* the warning of a failed conversion (line 162)
ZoneWarning(zone) == <<"Failed to convert to timezone", zone, ZoneError(zone)>>

\* warnings of the TimezoneResponse with the failure replacing the others
TimezoneWarningsReplaced(tr, zone) ==
    IF zone \in KnownZones THEN tr.warnings ELSE <<ZoneWarning(zone)>>

\* warnings of the TimezoneResponse (lines 154, 161-162)
TimezoneWarnings(tr, zone) ==
    IF zone \in KnownZones THEN tr.warnings
    ELSE Append(tr.warnings, ZoneWarning(zone))

\* the TimezoneResponse get_time_for_timezone returns (lines 144-172)
TimezoneResponse(tr, zone) ==
    [iso8601_time |-> tr.iso8601_time,
     epoch_ms |-> tr.epoch_ms,
     sources_used |-> tr.sources_used,
     total_sources |-> tr.total_sources,
     consensus_method |-> tr.consensus_method,
     estimated_error_ms |-> tr.estimated_error_ms,
     source_samples |-> tr.source_samples,
     warnings |-> TimezoneWarnings(tr, zone),
     system_time |-> tr.system_time,
     system_delta_ms |-> tr.system_delta_ms,
     query_duration_ms |-> tr.query_duration_ms,
     latency_compensated |-> tr.latency_compensated,
     timezone |-> zone,
     local_time |->
        IF zone \in KnownZones THEN LocalIso(tr.epoch_ms, zone)
        ELSE <<"ERROR: ", ZoneError(zone)>>]

\* drift classification on the signed delta
StatusOfSigned(system_delta_ms) ==
    IF system_delta_ms < Ms(OkBelowMs) THEN ClockStatusOK
    ELSE IF system_delta_ms < Ms(DriftBelowMs) THEN ClockStatusDRIFT
    ELSE ClockStatusERROR

\* drift classification of compare_system_clock (lines 193-199)
StatusOf(system_delta_ms) ==
    IF Abs(system_delta_ms) < Ms(OkBelowMs) THEN ClockStatusOK
    ELSE IF Abs(system_delta_ms) < Ms(DriftBelowMs) THEN ClockStatusDRIFT
    ELSE ClockStatusERROR

\* the ClockComparisonResponse compare_system_clock returns
ClockComparisonResponse(tr) ==
    [system_time |-> tr.system_time,
     trusted_time |-> tr.iso8601_time,
     delta_ms |-> tr.system_delta_ms,
     estimated_error_ms |-> tr.estimated_error_ms,
     status |-> StatusOf(tr.system_delta_ms)]

\* ------------------------------------------------------ timezone_utils.py
\* Datetimes are whole days since 2025-01-01T00:00 UTC.

\* timedelta(days=30): the distance of two samples (line 98)
SampleDays == 30

\* the zones of the tzdata the scans run over
ScanZones == {"America/New_York", "America/Phoenix", "Australia/Sydney"}

\* tzdata: the days of 2025 in the course of which the zone changes its offset
\* (New York on 9 March and 2 November, Sydney on 5 April and 4 October UTC)
ZoneChanges(tz) ==
    CASE tz = "America/New_York" -> {67, 305}
      [] tz = "Australia/Sydney" -> {94, 276}
      [] OTHER -> {}

\* tzdata: the standard time and the daylight time of the zone
ZoneStandard(tz) ==
    CASE tz = "America/New_York" ->
            [utc_offset_seconds |-> 0 - 18000, is_dst |-> FALSE,
             abbreviation |-> "EST"]
      [] tz = "Australia/Sydney" ->
            [utc_offset_seconds |-> 36000, is_dst |-> FALSE,
             abbreviation |-> "AEST"]
      [] OTHER ->
            [utc_offset_seconds |-> 0 - 25200, is_dst |-> FALSE,
             abbreviation |-> "MST"]

ZoneDaylight(tz) ==
    CASE tz = "America/New_York" ->
            [utc_offset_seconds |-> 0 - 14400, is_dst |-> TRUE,
             abbreviation |-> "EDT"]
      [] tz = "Australia/Sydney" ->
            [utc_offset_seconds |-> 39600, is_dst |-> TRUE,
             abbreviation |-> "AEDT"]
      [] OTHER -> ZoneStandard(tz)

\* tzdata: the zone is on daylight time on 1 January 2025
StartsOnDaylight(tz) == tz = "Australia/Sydney"

\* get_timezone_info_at_datetime (lines 29-57): offset, DST flag and
\* abbreviation in force at 00:00 UTC of day dt
get_timezone_info_at_datetime(tz, dt) ==
    LET passed == Cardinality({t \in ZoneChanges(tz) : t < dt})
    IN  IF (passed % 2 = 1) # StartsOnDaylight(tz)
        THEN ZoneDaylight(tz) ELSE ZoneStandard(tz)

\* the while loop of find_timezone_transitions from the sample at current on
\* (lines 81-98)
RECURSIVE SampleLoop(_, _, _, _, _)
SampleLoop(tz, current, end, prev_info, found) ==
    IF current <= end
    THEN LET info == get_timezone_info_at_datetime(tz, current)
             changed ==
                 /\ "none" \notin DOMAIN prev_info
                 /\ \/ info.utc_offset_seconds # prev_info.utc_offset_seconds
                    \/ info.is_dst # prev_info.is_dst
         IN  SampleLoop(tz, current + SampleDays, end, info,
                        IF changed
                        THEN Append(found,
                                    [from_datetime |-> current,
                                     utc_offset_seconds |->
                                        info.utc_offset_seconds,
                                     is_dst |-> info.is_dst,
                                     abbreviation |-> info.abbreviation])
                        ELSE found)
    ELSE found

\* find_timezone_transitions (lines 60-100)
find_timezone_transitions(tz, start, end) ==
    SampleLoop(tz, start, end, [none |-> TRUE], <<>>)

\* ------------------------------------------------------ state
VARIABLES
    ntp_servers,          \* _config.ntp_servers
    pc,                   \* where the request is
    tool,                 \* the tool that was called
    mode,                 \* its mode argument
    compensate_latency,   \* its compensate_latency argument
    timezone_name,        \* its timezone_name argument
    clock,                \* the system clock, as last read
    query_start,          \* first clock reading of get_time_utc
    servers,              \* the servers get_time_utc selected
    responses,            \* one NTPResponse slot per selected server
    pending,              \* indices of the queries still in flight
    system_now,           \* clock reading taken by compute_consensus
    consensus,            \* what compute_consensus returned
    query_end,            \* clock reading taken after compute_consensus
    current_system_time,  \* clock reading taken after the shift
    time_response,        \* what get_time_utc returned
    result,               \* what the tool returned
    calls,                \* the locals of each of several requests in flight
    tz_name,              \* find_timezone_transitions: its tz_name argument
    start_dt,             \* its start_dt argument, in days
    end_dt,               \* its end_dt argument, in days
    transitions,          \* the list it returned
    scan_pc               \* where the call of find_timezone_transitions is

vars == <<ntp_servers, pc, tool, mode, compensate_latency, timezone_name,
          clock, query_start, servers, responses, pending, system_now,
          consensus, query_end, current_system_time, time_response, result,
          calls, tz_name, start_dt, end_dt, transitions, scan_pc>>

\* the variables of a call of find_timezone_transitions
scan_vars == <<tz_name, start_dt, end_dt, transitions, scan_pc>>

NoRecord == [none |-> TRUE]

\* no request has been made
RequestIdle ==
    /\ pc = "idle"
    /\ tool = NoneStr
    /\ mode = NoneStr
    /\ compensate_latency = FALSE
    /\ timezone_name = NoneStr
    /\ clock = T0
    /\ query_start = NoneNum
    /\ servers = <<>>
    /\ responses = <<>>
    /\ pending = {}
    /\ system_now = NoneNum
    /\ consensus = NoRecord
    /\ query_end = NoneNum
    /\ current_system_time = NoneNum
    /\ time_response = NoRecord
    /\ result = NoRecord

\* find_timezone_transitions has not been called
ScanIdle ==
    /\ tz_name = NoneStr
    /\ start_dt = NoneNum
    /\ end_dt = NoneNum
    /\ transitions = <<>>
    /\ scan_pc = "idle"

Init ==
    /\ ntp_servers \in ServerLists
    /\ RequestIdle
    /\ calls = <<>>
    /\ ScanIdle

\* a tool is called; get_time_utc reads the clock, selects the servers and
\* starts one query per server (lines 54-63)
Call(t, m, c, z) ==
    /\ pc = "idle"
    /\ t = "get_time_for_timezone" <=> z # NoneStr
    /\ t = "compare_system_clock" => c
    /\ m \notin AccuracyMode => t = "get_time_utc"
    /\ tool' = t
    /\ mode' = m
    /\ compensate_latency' = c
    /\ timezone_name' = z
    /\ query_start' = clock
    /\ servers' = SelectServers(m, ntp_servers)
    /\ responses' = [i \in 1..Len(servers') |-> PendingResponse(servers'[i])]
    /\ pending' = 1..Len(servers')
    /\ pc' = "querying"
    /\ UNCHANGED <<ntp_servers, clock, system_now, consensus, query_end,
                   current_system_time, time_response, result>>
    /\ UNCHANGED <<calls, scan_vars>>

\* a query whose failure ends the queries still in flight with it
QueryServerCancelling(i, r) ==
    /\ pc = "querying"
    /\ i \in pending
    /\ responses' =
          IF r.success THEN [responses EXCEPT ![i] = r]
          ELSE [j \in 1..Len(responses) |->
                  IF j = i THEN r
                  ELSE IF j \in pending
                       THEN FailureResponse(servers[j], "network_error")
                       ELSE responses[j]]
    /\ pending' = IF r.success THEN pending \ {i} ELSE {}
    /\ UNCHANGED <<ntp_servers, pc, tool, mode, compensate_latency,
                   timezone_name, clock, query_start, servers, system_now,
                   consensus, query_end, current_system_time, time_response,
                   result>>
    /\ UNCHANGED <<calls, scan_vars>>

\* the query of one server completes or times out; its NTPResponse takes the
\* server's place in the list
QueryServer(i, r) ==
    /\ pc = "querying"
    /\ i \in pending
    /\ responses' = [responses EXCEPT ![i] = r]
    /\ pending' = pending \ {i}
    /\ UNCHANGED <<ntp_servers, pc, tool, mode, compensate_latency,
                   timezone_name, clock, query_start, servers, system_now,
                   consensus, query_end, current_system_time, time_response,
                   result>>
    /\ UNCHANGED <<calls, scan_vars>>

\* every query has returned; the engine reads the clock and computes the
\* consensus (line 66)
ComputeConsensus(step, tag) ==
    /\ pc = "querying"
    /\ pending = {}
    /\ clock' = clock + step
    /\ system_now' = clock'
    /\ consensus' = compute_consensus(responses, system_now', tag)
    /\ pc' = "consensus"
    /\ UNCHANGED <<ntp_servers, tool, mode, compensate_latency, timezone_name,
                   query_start, servers, responses, pending, query_end,
                   current_system_time, time_response, result>>
    /\ UNCHANGED <<calls, scan_vars>>

\* get_time_utc appending its warning to the list of the consensus result
FinishAliasing(step1, step2) ==
    /\ pc = "consensus"
    /\ query_end' = clock + step1
    /\ current_system_time' =
          IF compensate_latency THEN query_end' + step2 ELSE NoneNum
    /\ clock' = IF compensate_latency THEN current_system_time' ELSE query_end'
    /\ time_response' = TimeResponse(consensus, compensate_latency, query_start,
                                     query_end', current_system_time')
    /\ consensus' = [consensus EXCEPT !.warnings = time_response'.warnings]
    /\ pc' = "returned"
    /\ UNCHANGED <<ntp_servers, tool, mode, compensate_latency, timezone_name,
                   query_start, servers, responses, pending, system_now,
                   result>>
    /\ UNCHANGED <<calls, scan_vars>>

\* get_time_utc measures the duration, compensates and returns (lines 68-119)
Finish(step1, step2) ==
    /\ pc = "consensus"
    /\ query_end' = clock + step1
    /\ current_system_time' =
          IF compensate_latency THEN query_end' + step2 ELSE NoneNum
    /\ clock' = IF compensate_latency THEN current_system_time' ELSE query_end'
    /\ time_response' = TimeResponse(consensus, compensate_latency, query_start,
                                     query_end', current_system_time')
    /\ pc' = "returned"
    /\ UNCHANGED <<ntp_servers, tool, mode, compensate_latency, timezone_name,
                   query_start, servers, responses, pending, system_now,
                   consensus, result>>
    /\ UNCHANGED <<calls, scan_vars>>

\* the caller of get_time_utc gets its TimeResponse
ReturnUtc ==
    /\ pc = "returned"
    /\ tool = "get_time_utc"
    /\ result' = time_response
    /\ pc' = "done"
    /\ UNCHANGED <<ntp_servers, tool, mode, compensate_latency, timezone_name,
                   clock, query_start, servers, responses, pending, system_now,
                   consensus, query_end, current_system_time, time_response>>
    /\ UNCHANGED <<calls, scan_vars>>

\* get_time_for_timezone converts the TimeResponse (lines 144-172)
ConvertTimezone ==
    /\ pc = "returned"
    /\ tool = "get_time_for_timezone"
    /\ result' = TimezoneResponse(time_response, timezone_name)
    /\ pc' = "done"
    /\ UNCHANGED <<ntp_servers, tool, mode, compensate_latency, timezone_name,
                   clock, query_start, servers, responses, pending, system_now,
                   consensus, query_end, current_system_time, time_response>>
    /\ UNCHANGED <<calls, scan_vars>>

\* compare_system_clock classifies the delta (lines 192-207)
CompareClock ==
    /\ pc = "returned"
    /\ tool = "compare_system_clock"
    /\ result' = ClockComparisonResponse(time_response)
    /\ pc' = "done"
    /\ UNCHANGED <<ntp_servers, tool, mode, compensate_latency, timezone_name,
                   clock, query_start, servers, responses, pending, system_now,
                   consensus, query_end, current_system_time, time_response>>
    /\ UNCHANGED <<calls, scan_vars>>

Next ==
    \/ \E t \in Tools, m \in RequestedModes, c \in BOOLEAN,
          z \in ZoneNames \cup {NoneStr} : Call(t, m, c, z)
    \/ \E i \in 1..NumServers : \E r \in QueryOutcomes(i) : QueryServer(i, r)
    \/ \E step \in ClockSteps, tag \in ConsensusMethod :
          ComputeConsensus(step, tag)
    \/ \E step1 \in ClockSteps, step2 \in ClockSteps : Finish(step1, step2)
    \/ ReturnUtc
    \/ ConvertTimezone
    \/ CompareClock

Spec == Init /\ [][Next]_vars

\* the fan-out of a get_time_utc request in either accuracy mode, the clock
\* standing still
FanOutNext ==
    \/ \E m \in AccuracyMode : Call("get_time_utc", m, TRUE, NoneStr)
    \/ \E i \in 1..NumServers : \E r \in QueryOutcomes(i) : QueryServer(i, r)
    \/ \E tag \in ConsensusMethod : ComputeConsensus(0, tag)
    \/ Finish(0, 0)
    \/ ReturnUtc

\* every query completes or times out within the per-query timeout, and the
\* event loop runs every step that stays ready
FanOutSpec == Init /\ [][FanOutNext]_vars /\ WF_vars(FanOutNext)

\* ------------------------------------------------------ requests in flight together
\* Each coroutine runs without interruption from one await to the next: a
\* request runs up to the await of line 63, its queries complete one by one,
\* and the rest of the tool runs when the last of them has completed.

\* the number of requests in flight together
NumRequests == 2
RequestIds == 1..NumRequests

\* _config.ntp_servers: one server more than fast mode takes
ConcServers == SubSeq(AllServers, 1, FastModeServerCount + 1)

\* the arguments of the requests
ConcArgs ==
    {[tool |-> "get_time_utc", mode |-> AccuracyModeFAST,
      compensate_latency |-> TRUE, timezone_name |-> NoneStr],
     [tool |-> "get_time_for_timezone", mode |-> AccuracyModeACCURATE,
      compensate_latency |-> FALSE, timezone_name |-> "Invalid/Timezone"],
     [tool |-> "compare_system_clock", mode |-> AccuracyModeFAST,
      compensate_latency |-> TRUE, timezone_name |-> NoneStr]}

\* the outcomes of one query: every server answers, the first configured
\* one may also time out
ConcOutcomes(server) ==
    {SuccessResponse(server, CHOOSE o \in SuccessOutcomes : o.stratum = 1)}
        \cup IF server = ConcServers[1]
             THEN {FailureResponse(server, "timeout")} ELSE {}

\* the clock advance between two readings
ConcSteps == {0, Ms(60)}

\* the locals of a request that has not been made
CallIdle ==
    [pc |-> "idle", tool |-> NoneStr, mode |-> NoneStr,
     compensate_latency |-> FALSE, timezone_name |-> NoneStr,
     query_start |-> NoneNum, servers |-> <<>>, responses |-> <<>>,
     pending |-> {}, tag |-> NoneStr, system_now |-> NoneNum,
     query_end |-> NoneNum, current_system_time |-> NoneNum,
     result |-> NoRecord]

\* what the tool returns for the TimeResponse of get_time_utc (lines 119,
\* 144-172, 192-207)
ToolResult(t, tr, zone) ==
    CASE t = "get_time_utc" -> tr
      [] t = "get_time_for_timezone" -> TimezoneResponse(tr, zone)
      [] OTHER -> ClockComparisonResponse(tr)

ConcInit ==
    /\ ntp_servers = ConcServers
    /\ RequestIdle
    /\ ScanIdle
    /\ calls = [r \in RequestIds |-> CallIdle]

\* request r is made with a fast-mode slice that truncates the shared list
ConcCallTruncating(r, a) ==
    /\ calls[r].pc = "idle"
    /\ LET selected == SelectServers(a.mode, ntp_servers)
       IN  /\ calls' = [calls EXCEPT ![r] =
                 [CallIdle EXCEPT
                    !.pc = "querying", !.tool = a.tool, !.mode = a.mode,
                    !.compensate_latency = a.compensate_latency,
                    !.timezone_name = a.timezone_name,
                    !.query_start = clock, !.servers = selected,
                    !.responses = [i \in 1..Len(selected) |->
                                     PendingResponse(selected[i])],
                    !.pending = 1..Len(selected)]]
           /\ ntp_servers' = selected
    /\ UNCHANGED <<pc, tool, mode, compensate_latency, timezone_name,
                   clock, query_start, servers, responses, pending, system_now,
                   consensus, query_end, current_system_time, time_response,
                   result, scan_vars>>

\* request r is made: it reads the clock, selects its servers and starts one
\* query per server (lines 54-63)
ConcCall(r, a) ==
    /\ calls[r].pc = "idle"
    /\ LET selected == SelectServers(a.mode, ntp_servers)
       IN  calls' = [calls EXCEPT ![r] =
                 [CallIdle EXCEPT
                    !.pc = "querying", !.tool = a.tool, !.mode = a.mode,
                    !.compensate_latency = a.compensate_latency,
                    !.timezone_name = a.timezone_name,
                    !.query_start = clock, !.servers = selected,
                    !.responses = [i \in 1..Len(selected) |->
                                     PendingResponse(selected[i])],
                    !.pending = 1..Len(selected)]]
    /\ UNCHANGED <<ntp_servers, pc, tool, mode, compensate_latency,
                   timezone_name, clock, query_start, servers, responses,
                   pending, system_now, consensus, query_end,
                   current_system_time, time_response, result, scan_vars>>

\* one query of request r completes or times out
ConcQueryServer(r, i, o) ==
    /\ calls[r].pc = "querying"
    /\ i \in calls[r].pending
    /\ calls' = [calls EXCEPT
                   ![r].responses[i] = o,
                   ![r].pending = calls[r].pending \ {i}]
    /\ UNCHANGED <<ntp_servers, pc, tool, mode, compensate_latency,
                   timezone_name, clock, query_start, servers, responses,
                   pending, system_now, consensus, query_end,
                   current_system_time, time_response, result, scan_vars>>

\* the batch of request r is complete: the engine computes the consensus,
\* get_time_utc compensates and the tool returns (lines 66-119, 144-172,
\* 192-207)
ConcResume(r, step, tag) ==
    /\ calls[r].pc = "querying"
    /\ calls[r].pending = {}
    /\ LET c == calls[r]
           now == clock + step
           after == now + step
           last == IF c.compensate_latency THEN after + step ELSE NoneNum
           tr == TimeResponse(compute_consensus(c.responses, now, tag),
                              c.compensate_latency, c.query_start, after, last)
       IN  /\ calls' = [calls EXCEPT ![r] =
                 [c EXCEPT !.pc = "done", !.tag = tag, !.system_now = now,
                           !.query_end = after, !.current_system_time = last,
                           !.result = ToolResult(c.tool, tr, c.timezone_name)]]
           /\ clock' = IF c.compensate_latency THEN last ELSE after
    /\ UNCHANGED <<ntp_servers, pc, tool, mode, compensate_latency,
                   timezone_name, query_start, servers, responses, pending,
                   system_now, consensus, query_end, current_system_time,
                   time_response, result, scan_vars>>

ConcNext ==
    \/ \E r \in RequestIds, a \in ConcArgs : ConcCall(r, a)
    \/ \E r \in RequestIds, i \in 1..Len(ConcServers) :
          \E o \in ConcOutcomes(ConcServers[i]) : ConcQueryServer(r, i, o)
    \/ \E r \in RequestIds, step \in ConcSteps, tag \in ConsensusMethod :
          ConcResume(r, step, tag)

ConcSpec == ConcInit /\ [][ConcNext]_vars

\* ------------------------------------------------------ find_timezone_transitions
\* the first days of the ranges scanned, and their last days
ScanDays == {0, 60, 80, 100, 300, 365}

\* a call of find_timezone_transitions with a zone and a range
ScanInit ==
    /\ ntp_servers = AllServers
    /\ RequestIdle
    /\ calls = <<>>
    /\ tz_name \in ScanZones
    /\ start_dt \in ScanDays
    /\ end_dt \in ScanDays
    /\ transitions = <<>>
    /\ scan_pc = "called"

\* find_timezone_transitions runs and returns its list
FindTransitions ==
    /\ scan_pc = "called"
    /\ transitions' = find_timezone_transitions(tz_name, start_dt, end_dt)
    /\ scan_pc' = "returned"
    /\ UNCHANGED <<ntp_servers, pc, tool, mode, compensate_latency,
                   timezone_name, clock, query_start, servers, responses,
                   pending, system_now, consensus, query_end,
                   current_system_time, time_response, result, calls, tz_name,
                   start_dt, end_dt>>

ScanNext == FindTransitions

ScanSpec == ScanInit /\ [][ScanNext]_vars

\* ------------------------------------------------------ vocabulary of the claims
\* get_time_utc has returned its TimeResponse
Returned == pc \in {"returned", "done"}
\* the tool has returned
Done == pc = "done"
\* compute_consensus has returned
Computed == pc \in {"consensus", "returned", "done"}
Successes == SelectSeq(responses, IsSuccess)
AllFailed == \A i \in 1..Len(responses) : ~responses[i].success
Elapsed == query_end - query_start
HasWarning(ws, text) == \E i \in 1..Len(ws) : ws[i][1] = text
FallbackNotice == "all sources failed, using system clock"
ReducedNotice == "reduced confidence"
LatencyNotice == "Applied latency compensation to timestamp"
ZoneNotice == "Failed to convert to timezone"

\* ------------------------------------------------------ C1
\* the method names of the three tiers of degradation
MethodTiers ==
    {"median_with_outlier_rejection", "single_source", "system_fallback"}

\* C1: whatever the outcome of each query of a non-empty server set, once
\* every query is in the engine yields a consensus of one of the three tiers,
\* get_time_utc can return it and the tool can return, and the TimeResponse
\* carries one of the three tier methods and accounts for every queried
\* server.
C1_AlwaysTieredResult ==
    /\ (pc = "querying" /\ servers # <<>> /\ pending = {}) =>
          \A tag \in ConsensusMethod :
              compute_consensus(responses, clock, tag).consensus_method
                  \in MethodTiers
    /\ (pc = "consensus" /\ servers # <<>>) => ENABLED Finish(0, 0)
    /\ (pc = "returned" /\ servers # <<>>) =>
          ENABLED (ReturnUtc \/ ConvertTimezone \/ CompareClock)
    /\ (Returned /\ servers # <<>>) =>
          /\ time_response.consensus_method \in MethodTiers
          /\ time_response.total_sources = Len(servers)
          /\ Len(time_response.source_samples) = Len(servers)

\* get_time_utc has returned after a timeout, a malformed response and a
\* success in one batch
C1_Witness ==
    /\ Done
    /\ tool = "get_time_utc"
    /\ \E i, j, k \in 1..Len(responses) :
          /\ responses[i].error_type = "timeout"
          /\ responses[j].error_type = "parse_error"
          /\ responses[k].success
    /\ result.consensus_method \in MethodTiers

\* ------------------------------------------------------ C2
\* C2 as stated: when every queried server fails, the result of get_time_utc
\* is a system fallback with no source used and a fallback warning, and its
\* timestamp is the system clock reading, with and without compensation.
C2_FallbackEqualsSystemClock ==
    (Done /\ tool = "get_time_utc" /\ AllFailed) =>
        /\ result.consensus_method = "system_fallback"
        /\ result.sources_used = 0
        /\ HasWarning(result.warnings, FallbackNotice)
        /\ result.epoch_ms = IntMs(system_now)
        /\ result.iso8601_time = IsoFormat(system_now)

\* C2 amended: when every queried server fails, the result of get_time_utc is
\* a system fallback with no source used and a fallback warning; its timestamp
\* is the system clock reading of the consensus computation when compensation
\* is off, and that reading plus the elapsed duration when it is on.
C2_FallbackShiftedSystemClock ==
    (Done /\ tool = "get_time_utc" /\ AllFailed) =>
        LET shift == IF compensate_latency THEN Elapsed ELSE 0
        IN  /\ result.consensus_method = "system_fallback"
            /\ result.sources_used = 0
            /\ HasWarning(result.warnings, FallbackNotice)
            /\ result.epoch_ms = IntMs(system_now + shift)
            /\ result.iso8601_time = IsoFormat(system_now + shift)

\* every server of a non-empty set failed and the compensated result came
\* back after a measurable delay
C2_Witness ==
    /\ Done
    /\ tool = "get_time_utc"
    /\ servers # <<>>
    /\ AllFailed
    /\ compensate_latency
    /\ Elapsed > 0
    /\ result.epoch_ms # IntMs(system_now)

\* ------------------------------------------------------ C3
\* C3 as stated: with at least one success but fewer than the configured
\* minimum, the method tag is a single-source tag distinct from the median
\* tag and the fallback tag, the timestamp is the first success's, the error
\* is that sample's round-trip time and a reduced-confidence warning is there.
C3_SingleSourceTag ==
    (Computed /\ Len(Successes) >= 1 /\ Len(Successes) < MinSources) =>
        /\ consensus.consensus_method = "single_source"
        /\ consensus.consensus_method \notin
              {"median_with_outlier_rejection", "system_fallback"}
        /\ consensus.timestamp = Successes[1].timestamp
        /\ consensus.estimated_error_ms = Successes[1].rtt_ms
        /\ HasWarning(consensus.warnings, ReducedNotice)

\* ------------------------------------------------------ C4
\* C4: with compensation, the reported epoch milliseconds and ISO time are the
\* consensus timestamp plus the elapsed duration, the elapsed duration being
\* the clock reading after the consensus computation minus the reading at the
\* start; query_duration_ms reports the same elapsed value.
C4_CompensatedTime ==
    (Returned /\ compensate_latency) =>
        /\ time_response.epoch_ms = IntMs(consensus.timestamp + Elapsed)
        /\ time_response.iso8601_time = IsoFormat(consensus.timestamp + Elapsed)
        /\ time_response.query_duration_ms = Elapsed

\* a compensated response whose millisecond moved with the elapsed time
C4_Witness ==
    /\ Returned
    /\ compensate_latency
    /\ Elapsed > 0
    /\ time_response.epoch_ms > consensus.epoch_ms
    /\ time_response.iso8601_time # consensus.iso8601_time

\* ------------------------------------------------------ C5
\* C5 as stated: for one consensus result, the error reported with
\* compensation is the uncompensated error plus a tenth of the elapsed
\* milliseconds and is never smaller than the uncompensated error.
C5_CompensationNeverLowersError ==
    (Returned /\ compensate_latency) =>
        LET plain == TimeResponse(consensus, FALSE, query_start, query_end,
                                  current_system_time)
        IN  /\ time_response.estimated_error_ms =
                  plain.estimated_error_ms + Tenth(Elapsed)
            /\ time_response.estimated_error_ms >= plain.estimated_error_ms

\* ------------------------------------------------------ C6
\* C6: with compensation, system_delta_ms is the clock reading taken after the
\* shift minus the shifted timestamp (system minus consensus), not the delta
\* of the consensus result.
C6_FreshDelta ==
    (Returned /\ compensate_latency) =>
        /\ current_system_time = clock
        /\ time_response.system_delta_ms =
              current_system_time - (consensus.timestamp + Elapsed)

\* a compensated response with the system clock ahead, whose delta is not the
\* consensus result's
C6_Witness ==
    /\ Returned
    /\ compensate_latency
    /\ time_response.system_delta_ms > 0
    /\ time_response.system_delta_ms # consensus.system_delta_ms

\* ------------------------------------------------------ C7
\* C7: the latency warning is appended exactly when compensation is on and the
\* elapsed duration is strictly more than 100 ms; it then comes last, after
\* the consensus warnings in their order; otherwise the warnings are the
\* consensus warnings.
C7_LatencyWarning ==
    Returned =>
        LET ws == time_response.warnings
            cw == consensus.warnings
        IN  /\ ~HasWarning(cw, LatencyNotice)
            /\ IF compensate_latency /\ Elapsed > 100 * TicksPerMs
               THEN /\ Len(ws) = Len(cw) + 1
                    /\ SubSeq(ws, 1, Len(cw)) = cw
                    /\ ws[Len(ws)][1] = LatencyNotice
               ELSE ws = cw

\* a slow compensated request whose consensus already carried a warning
C7_Witness ==
    /\ Returned
    /\ compensate_latency
    /\ Elapsed > 100 * TicksPerMs
    /\ Len(consensus.warnings) >= 1
    /\ time_response.warnings[Len(time_response.warnings)][1] = LatencyNotice

C9_UnknownZoneDegrades ==
    (Done /\ tool = "get_time_for_timezone" /\ timezone_name \notin KnownZones) =>
        LET tr == time_response
            n == Len(tr.warnings)
        IN  /\ result.local_time[1] = "ERROR: "
            /\ Len(result.warnings) = n + 1
            /\ SubSeq(result.warnings, 1, n) = tr.warnings
            /\ result.warnings[n + 1][1] = ZoneNotice
            /\ result.warnings[n + 1][2] = timezone_name
            /\ result.timezone = timezone_name
            /\ result.iso8601_time = tr.iso8601_time
            /\ result.epoch_ms = tr.epoch_ms
            /\ result.sources_used = tr.sources_used
            /\ result.total_sources = tr.total_sources
            /\ result.consensus_method = tr.consensus_method
            /\ result.estimated_error_ms = tr.estimated_error_ms
            /\ result.source_samples = tr.source_samples
            /\ result.system_time = tr.system_time
            /\ result.system_delta_ms = tr.system_delta_ms
            /\ result.query_duration_ms = tr.query_duration_ms
            /\ result.latency_compensated = tr.latency_compensated

\* an unresolvable zone on top of a TimeResponse that already has warnings
C9_Witness ==
    /\ Done
    /\ tool = "get_time_for_timezone"
    /\ timezone_name \notin KnownZones
    /\ Len(time_response.warnings) >= 1
    /\ result.local_time[1] = "ERROR: "

\* ------------------------------------------------------ C10
\* C10 as stated: get_time_utc returns no TimeResponse for a request whose
\* selected server list is empty or whose mode is neither fast nor accurate.
C10_InvalidRequestFails ==
    Returned => (servers # <<>> /\ mode \in {"fast", "accurate"})

\* ------------------------------------------------------ C11
\* the number of servers fast mode queries
FastCount ==
    IF Len(ntp_servers) < FastModeServerCount
    THEN Len(ntp_servers) ELSE FastModeServerCount

\* C11: fast mode queries exactly the first fast_mode_server_count configured
\* servers in configured order (all of them when the list is shorter),
\* accurate mode queries every configured server, and in both modes
\* total_sources and the length of source_samples equal the number of servers
\* queried.
C11_ServerSelection ==
    /\ pc # "idle" /\ mode = AccuracyModeFAST =>
          /\ Len(servers) = FastCount
          /\ \A i \in 1..Len(servers) : servers[i] = ntp_servers[i]
    /\ pc # "idle" /\ mode = AccuracyModeACCURATE => servers = ntp_servers
    /\ Returned /\ mode \in AccuracyMode =>
          /\ time_response.total_sources = Len(servers)
          /\ Len(time_response.source_samples) = Len(servers)

\* a fast request returned after querying a proper prefix of the configuration
C11_Witness ==
    /\ Returned
    /\ mode = AccuracyModeFAST
    /\ Len(ntp_servers) > FastModeServerCount
    /\ time_response.total_sources = FastModeServerCount

\* ------------------------------------------------------ C12
\* C12: in every result the number of sources used lies between zero and the
\* number of sources queried, whatever the mix of successes, failures and
\* rejected outliers, with and without latency compensation.
C12_UsedWithinTotal ==
    Returned =>
        /\ 0 <= time_response.sources_used
        /\ time_response.sources_used <= time_response.total_sources

\* a compensated result over a failed query and samples that were kept
C12_Witness ==
    /\ Returned
    /\ compensate_latency
    /\ \E i \in 1..Len(responses) : ~responses[i].success
    /\ 0 < time_response.sources_used
    /\ time_response.sources_used < time_response.total_sources

\* ------------------------------------------------------ C13
\* C13: in every result of get_time_utc the estimated error is non-negative,
\* in each tier, with and without latency compensation.
C13_ErrorNonNegative ==
    Returned => time_response.estimated_error_ms >= 0

\* ------------------------------------------------------ C14
\* C14: for every order in which the per-server queries complete or time out,
\* the slots of the batch and the source_samples of the result hold exactly
\* one record per queried server, in the order the servers were selected, and
\* no server appears twice.
C14_OneSamplePerServer ==
    /\ pc # "idle" =>
          /\ Len(responses) = Len(servers)
          /\ \A i \in 1..Len(servers) : responses[i].server = servers[i]
    /\ Returned =>
          LET samples == time_response.source_samples
          IN  /\ Len(samples) = Len(servers)
              /\ \A i \in 1..Len(samples) : samples[i].server = servers[i]
              /\ \A i, j \in 1..Len(samples) :
                    i # j => samples[i].server # samples[j].server

\* a result whose first server failed and whose later server answered
C14_Witness ==
    /\ Returned
    /\ Len(servers) >= 2
    /\ ~time_response.source_samples[1].success
    /\ time_response.source_samples[Len(servers)].success

\* ------------------------------------------------------ C16
\* every successful sample deviates from the median by more than the threshold
AllFar ==
    \A i \in 1..Len(Successes) :
        Abs(Successes[i].timestamp - Median(Timestamps(Successes)))
            > Ms(MaxOutlierDeviationMs)

\* C16: whenever at least min_sources (at least one) queries succeeded the
\* consensus uses at least one source, also when every sample deviates from
\* the median by more than the threshold: rejection is then skipped and all
\* samples are retained.
C16_RetainedNeverEmpty ==
    /\ MinSources >= 1
    /\ Computed /\ Len(Successes) >= MinSources =>
          /\ consensus.sources_used >= 1
          /\ AllFar => consensus.sources_used = Len(Successes)
    /\ Returned /\ Len(Successes) >= MinSources =>
          time_response.sources_used >= 1

\* a result over samples that are all far from their median
C16_Witness ==
    /\ Returned
    /\ Len(Successes) >= MinSources
    /\ AllFar
    /\ time_response.sources_used = Len(Successes)

\* ------------------------------------------------------ C17
\* a successful response the outlier rejection discards
Rejected(r) ==
    /\ r.success
    /\ Len(Successes) >= MinSources
    /\ ~AllFar
    /\ Abs(r.timestamp - Median(Timestamps(Successes)))
           > Ms(MaxOutlierDeviationMs)

\* the successful responses the outlier rejection keeps
NotRejected == SelectSeq(Successes, LAMBDA r : ~Rejected(r))

\* C17: a rejected outlier is left out of sources_used and of the median, and
\* is still reported in source_samples as a successful sample at its original
\* position; source_samples is the full list of samples of the batch, passed
\* through unchanged by get_time_utc.
C17_OutlierStillReported ==
    Returned =>
        /\ time_response.source_samples = SourceSamplesOf(responses)
        /\ time_response.source_samples = consensus.source_samples
        /\ (\E i \in 1..Len(responses) : Rejected(responses[i])) =>
              /\ time_response.sources_used = Len(NotRejected)
              /\ consensus.timestamp = Median(Timestamps(NotRejected))
              /\ \A i \in 1..Len(responses) :
                    Rejected(responses[i]) =>
                        /\ time_response.source_samples[i].success
                        /\ time_response.source_samples[i].server = servers[i]

\* a result whose batch holds a rejected outlier
C17_Witness ==
    /\ Returned
    /\ \E i \in 1..Len(responses) : Rejected(responses[i])
    /\ time_response.sources_used < time_response.total_sources
    /\ \A i \in 1..Len(responses) : responses[i].success

\* ------------------------------------------------------ C15
\* one step of the fan-out: exactly one query in flight completes, its slot
\* receives its outcome and every other slot is left as it was
OneQueryCompletes ==
    \E i \in pending :
        /\ pending' = pending \ {i}
        /\ responses'[i].server = servers[i]
        /\ responses'[i].error # "pending"
        /\ \A j \in 1..Len(responses) : j # i => responses'[j] = responses[j]

\* a failed query is reported as one failed sample of its own server
FailuresReported ==
    \A i \in 1..Len(responses) :
        ~responses[i].success =>
            /\ ~time_response.source_samples[i].success
            /\ time_response.source_samples[i].server = servers[i]
            /\ time_response.source_samples[i].error = responses[i].error
            /\ Cardinality({j \in 1..Len(servers) :
                   time_response.source_samples[j].server = servers[i]}) = 1

\* C15: the per-server queries are isolated from each other's failures and
\* the batch waits for all of them: a query that fails or times out yields
\* exactly one failed sample for its server and never cancels or fails a
\* sibling, the fan-out returns only after every query has completed or timed
\* out, and it does eventually return.
C15_FanOutIsolated ==
    /\ [][pc = "querying" /\ pc' = "querying" => OneQueryCompletes]_vars
    /\ [](Computed =>
            /\ pending = {}
            /\ \A i \in 1..Len(responses) : responses[i].error # "pending")
    /\ [](Returned => FailuresReported)
    /\ (pc = "querying" ~> Computed)

\* a result whose first query timed out while a later one succeeded
C15_Witness ==
    /\ Returned
    /\ Len(servers) >= 2
    /\ responses[1].error = "timeout"
    /\ responses[Len(servers)].success
    /\ time_response.source_samples[Len(servers)].success
    /\ ~time_response.source_samples[1].success

\* ------------------------------------------------------ C20
\* the delta agrees with the two printed times, which are rounded to the
\* microsecond
DeltaOfTimes(delta, system_time, reported_time) ==
    Abs(delta - (system_time - reported_time) * TicksPerUs) <= TicksPerUs

\* C20: in every TimeResponse, with and without latency compensation, and in
\* every response of compare_system_clock, the delta is the reported system
\* time minus the reported consensus time.
C20_DeltaOfReportedTimes ==
    /\ Returned =>
          DeltaOfTimes(time_response.system_delta_ms, time_response.system_time,
                       time_response.iso8601_time)
    /\ Done /\ tool = "compare_system_clock" =>
          DeltaOfTimes(result.delta_ms, result.system_time, result.trusted_time)

\* ------------------------------------------------------ C19
\* the changes the zone undergoes from 00:00 of day from to 00:00 of day to
ChangesBetween(tz, from, to) == {t \in ZoneChanges(tz) : from <= t /\ t < to}

\* C19: called with start_dt <= end_dt, find_timezone_transitions reports
\* every change of offset or DST status the zone undergoes between start_dt
\* and end_dt, in chronological order, and none for a zone that is constant
\* over the range; called with start_dt > end_dt it reports none.
C19_EveryChangeReported ==
    scan_pc = "returned" =>
        IF start_dt <= end_dt
        THEN /\ Len(transitions) =
                  Cardinality(ChangesBetween(tz_name, start_dt, end_dt))
             /\ \A i \in 1..Len(transitions) - 1 :
                   transitions[i].from_datetime
                       < transitions[i + 1].from_datetime
        ELSE transitions = <<>>

\* ------------------------------------------------------ C18
\* what the tool returns for the arguments, the samples and the clock readings
\* of one request alone
OwnResult(c) ==
    ToolResult(c.tool,
               TimeResponse(compute_consensus(c.responses, c.system_now, c.tag),
                            c.compensate_latency, c.query_start, c.query_end,
                            c.current_system_time),
               c.timezone_name)

WithCompensation ==
    TimeResponse(consensus, TRUE, query_start, query_end,
                 IF compensate_latency THEN current_system_time ELSE query_end)
WithoutCompensation ==
    TimeResponse(consensus, FALSE, query_start, query_end, NoneNum)

\* C21: for the same consensus result and the same clock readings the results
\* with and without latency compensation have the same sources_used,
\* total_sources, consensus method, source_samples and system_time; without
\* compensation the timestamp, the estimated error, the warnings and the
\* system delta are those of the consensus result; latency_compensated is the
\* flag of the request; and the warning list of the consensus result is left
\* as the engine made it.
C21_CompensationFrame ==
    Returned =>
        /\ time_response =
              IF compensate_latency THEN WithCompensation
              ELSE WithoutCompensation
        /\ WithCompensation.sources_used = WithoutCompensation.sources_used
        /\ WithCompensation.total_sources = WithoutCompensation.total_sources
        /\ WithCompensation.consensus_method
              = WithoutCompensation.consensus_method
        /\ WithCompensation.source_samples = WithoutCompensation.source_samples
        /\ WithCompensation.system_time = WithoutCompensation.system_time
        /\ WithoutCompensation.iso8601_time = consensus.iso8601_time
        /\ WithoutCompensation.epoch_ms = consensus.epoch_ms
        /\ WithoutCompensation.estimated_error_ms = consensus.estimated_error_ms
        /\ WithoutCompensation.warnings = consensus.warnings
        /\ WithoutCompensation.system_delta_ms = consensus.system_delta_ms
        /\ time_response.latency_compensated = compensate_latency
        /\ ~HasWarning(consensus.warnings, LatencyNotice)
        /\ \A i \in 1..Len(consensus.warnings) :
              time_response.warnings[i] = consensus.warnings[i]

\* a compensated result that carries the latency warning and differs from the
\* uncompensated one in its timestamp
C21_Witness ==
    /\ Returned
    /\ compensate_latency
    /\ HasWarning(time_response.warnings, LatencyNotice)
    /\ consensus.warnings # <<>>
    /\ WithCompensation.epoch_ms # WithoutCompensation.epoch_ms

\* ------------------------------------------------------ C22
\* the fields a TimezoneResponse shares with the TimeResponse
BaseFields ==
    {"iso8601_time", "epoch_ms", "sources_used", "total_sources",
     "consensus_method", "estimated_error_ms", "source_samples", "warnings",
     "system_time", "system_delta_ms", "query_duration_ms",
     "latency_compensated"}

\* C22: called with a resolvable zone name, get_time_for_timezone returns
\* every base field, the warnings included, as get_time_utc returned it for
\* the same mode and flag, echoes the requested name in timezone, and gives a
\* local_time that is no error marker and denotes the instant of epoch_ms.
C22_ResolvableZone ==
    Done /\ tool = "get_time_for_timezone" /\ timezone_name \in KnownZones =>
        /\ \A f \in BaseFields : result[f] = time_response[f]
        /\ BaseFields = DOMAIN time_response
        /\ result.timezone = timezone_name
        /\ result.local_time[1] = "ISO"
        /\ result.local_time[2] - result.local_time[3] = result.epoch_ms

\* a compensated conversion to a resolvable zone of a result with warnings
C22_Witness ==
    /\ Done
    /\ tool = "get_time_for_timezone"
    /\ timezone_name \in KnownZones
    /\ compensate_latency
    /\ result.warnings # <<>>
    /\ result.epoch_ms # consensus.epoch_ms

====
